---- MODULE Spec2Model ----
(***************************************************************************)
(* The two item-list services of the repository:                           *)
(*   custom_base_model/main.py  (typed items, validated by class Item)     *)
(*   simple_server/main.py      (untyped items, bare strings)              *)
(* Each is a process holding one module-level list `items`.  The handlers  *)
(* are plain `def` functions, which the web framework runs on worker       *)
(* threads, so several requests can be in flight on the one list.  A       *)
(* handler is modelled statement by statement; a single list operation     *)
(* (append, slice, index, len) is one atomic step of the interpreter.      *)
(* `return items` hands the shared list itself to the framework, which     *)
(* reads it when it builds the response body.                              *)
(***************************************************************************)
EXTENDS Integers, Sequences, FiniteSets, TLC

\* Bounds of the model.
MaxItems == 2
NThreads == 2

Threads == 1..NThreads
Services == {"typed", "simple"}
\* Integers a client sends as limit or item_id: negative, inside the list,
\* its length and beyond.
Args == (0 - 2)..(MaxItems + 1)

None == <<>>
Some(x) == <<x>>

Min(a, b) == IF a < b THEN a ELSE b
Max(a, b) == IF a > b THEN a ELSE b

----------------------------------------------------------------------------
\* JSON values of a request body.
Absent == [t |-> "absent"]
Null == [t |-> "null"]
Obj == [t |-> "obj"]
Str(s) == [t |-> "str", v |-> s]
Num(n) == [t |-> "num", v |-> n]

\* Bodies a client posts to the typed service: two well-shaped ones, then
\* bodies missing a required field or carrying a field of the wrong type.
Bodies ==
  { [name |-> Str("Apple"), description |-> Absent, price |-> Num(1), quantity |-> Absent],
    [name |-> Str("Pear"), description |-> Str("green"), price |-> Num(2), quantity |-> Num(3)],
    [name |-> Absent, description |-> Null, price |-> Num(1), quantity |-> Absent],
    [name |-> Str("Apple"), description |-> Absent, price |-> Absent, quantity |-> Absent],
    [name |-> Str("Apple"), description |-> Absent, price |-> Str("abc"), quantity |-> Absent],
    [name |-> Obj, description |-> Absent, price |-> Num(1), quantity |-> Absent],
    [name |-> Str("Apple"), description |-> Absent, price |-> Num(1), quantity |-> Str("many")] }

\* Strings a client posts to the untyped service.
Strings == {"milk", "eggs"}

\* One field of class Item: `type` is the declared type, `nullable` says the
\* annotation admits None, `default` is <<d>> when the field has a default d
\* and None when the field is required.
Field(j, type, nullable, default) ==
  IF j.t = "absent" THEN [ok |-> default # None, v |-> default]
  ELSE IF j.t = "null" THEN [ok |-> nullable, v |-> Some(None)]
  ELSE IF j.t = type THEN [ok |-> TRUE, v |-> Some(IF nullable THEN Some(j.v) ELSE j.v)]
  ELSE [ok |-> FALSE, v |-> None]

\* Item with `price: float = 0`: a body without price validates.
ItemPriceOptional(body) ==
  LET n == Field(body.name, "str", FALSE, None)
      d == Field(body.description, "str", TRUE, Some(None))
      p == Field(body.price, "num", FALSE, Some(0))
      q == Field(body.quantity, "num", FALSE, Some(1))
  IN IF n.ok /\ d.ok /\ p.ok /\ q.ok
     THEN [ok |-> TRUE,
           item |-> [name |-> n.v[1], description |-> d.v[1], price |-> p.v[1], quantity |-> q.v[1]]]
     ELSE [ok |-> FALSE, item |-> None]

\* class Item(BaseModel): name: str; description: str | None = None;
\* price: float; quantity: int = 1.  The framework builds the handler's
\* argument with it and answers 422 without calling the handler when it fails.
Item(body) ==
  LET n == Field(body.name, "str", FALSE, None)
      d == Field(body.description, "str", TRUE, Some(None))
      p == Field(body.price, "num", FALSE, None)
      q == Field(body.quantity, "num", FALSE, Some(1))
  IN IF n.ok /\ d.ok /\ p.ok /\ q.ok
     THEN [ok |-> TRUE,
           item |-> [name |-> n.v[1], description |-> d.v[1], price |-> p.v[1], quantity |-> q.v[1]]]
     ELSE [ok |-> FALSE, item |-> None]

----------------------------------------------------------------------------
\* The list operations the handlers use.

\* A slice that takes a negative bound for 0, as a language without negative
\* indexing would.
PySliceClamped(s, lo, hi) ==
  LET n == Len(s)
      a == Min(Max(lo, 0), n)
      b == Min(Max(hi, 0), n)
  IN IF a >= b THEN <<>> ELSE SubSeq(s, a + 1, b)

\* s[lo:hi]: negative bounds count from the end, both are clamped to the list.
PySlice(s, lo, hi) ==
  LET n == Len(s)
      a == IF lo < 0 THEN Max(lo + n, 0) ELSE Min(lo, n)
      b == IF hi < 0 THEN Max(hi + n, 0) ELSE Min(hi, n)
  IN IF a >= b THEN <<>> ELSE SubSeq(s, a + 1, b)

\* s[i]: a negative index counts from the end; out of range is an IndexError.
PyIndex(s, i) ==
  LET n == Len(s)
      j == IF i < 0 THEN i + n ELSE i
  IN IF j < 0 \/ j >= n THEN [ok |-> FALSE, v |-> None] ELSE [ok |-> TRUE, v |-> Some(s[j + 1])]

----------------------------------------------------------------------------
\* custom_base_model/main.py, one operator per statement of a handler.  Each
\* takes the list `items` as the statement finds it and yields the list as the
\* statement leaves it, with what the statement produces.

\* items.insert(0, item) in place of items.append(item).
typed_create_item_prepend(s, item) == [items |-> <<item>> \o s]

\* items[-1:] = [item] in place of items.append(item): the last element is
\* overwritten.
typed_create_item_overwrite(s, item) ==
  [items |-> IF s = <<>> THEN <<item>> ELSE [s EXCEPT ![Len(s)] = item]]

\* items.append(item)
typed_create_item_append(s, item) == [items |-> Append(s, item)]

\* return items: the response body is the list as it is when the body is built.
typed_create_item_return(s) == [items |-> s, status |-> 200, body |-> s]

\* del items[limit:] before returning: the list itself is truncated.
typed_list_items_truncate(s, limit) ==
  [items |-> IF limit # None THEN PySlice(s, 0, limit[1]) ELSE s, status |-> 200,
   body |-> IF limit # None THEN PySlice(s, 0, limit[1]) ELSE s]

\* if limit is not None: return items[0:limit]
\* return items
typed_list_items(s, limit) ==
  [items |-> s, status |-> 200,
   body |-> IF limit # None THEN PySlice(s, 0, limit[1]) ELSE s]

\* item_id > len(items) in place of item_id >= len(items).
typed_get_item_check_inclusive(s, item_id) ==
  [items |-> s, raise |-> item_id < 0 \/ item_id > Len(s)]

\* if item_id < 0 or item_id >= len(items):
typed_get_item_check(s, item_id) == [items |-> s, raise |-> item_id < 0 \/ item_id >= Len(s)]

\* raise HTTPException(status_code=404, detail=f"Item {item_id} not found")
typed_get_item_raise(s, item_id) ==
  [items |-> s, status |-> 404, body |-> [detail |-> "Item not found", item_id |-> item_id]]

\* return items.pop(item_id): the item returned is removed from the list.
typed_get_item_pop(s, item_id) ==
  LET r == PyIndex(s, item_id)
      j == IF item_id < 0 THEN item_id + Len(s) ELSE item_id
  IN IF r.ok THEN [items |-> SubSeq(s, 1, j) \o SubSeq(s, j + 2, Len(s)),
                   status |-> 200, body |-> r.v[1]]
     ELSE [items |-> s, status |-> 500, body |-> [detail |-> "Internal Server Error"]]

\* return items[item_id]: an IndexError here would surface as a 500.
typed_get_item_return(s, item_id) ==
  LET r == PyIndex(s, item_id)
  IN IF r.ok THEN [items |-> s, status |-> 200, body |-> r.v[1]]
     ELSE [items |-> s, status |-> 500, body |-> [detail |-> "Internal Server Error"]]

----------------------------------------------------------------------------
\* simple_server/main.py, likewise.

\* items.insert(0, item) in place of items.append(item).
simple_create_item_prepend(s, item) == [items |-> <<item>> \o s]

\* items.append(item)
simple_create_item_append(s, item) == [items |-> Append(s, item)]

\* return items
simple_create_item_return(s) == [items |-> s, status |-> 200, body |-> s]

\* `if limit:` in place of `if limit is not None:`, so that limit 0 lists all.
simple_list_items_falsy(s, limit) ==
  [items |-> s, status |-> 200,
   body |-> IF limit # None /\ limit # Some(0) THEN PySlice(s, 0, limit[1]) ELSE s]

\* if limit is not None: return items[0:limit]
\* return items
simple_list_items(s, limit) ==
  [items |-> s, status |-> 200,
   body |-> IF limit # None THEN PySlice(s, 0, limit[1]) ELSE s]

\* The test without `item_id < 0`.
simple_get_item_check_upper(s, item_id) == [items |-> s, raise |-> item_id >= Len(s)]

\* if item_id < 0 or item_id >= len(items):
simple_get_item_check(s, item_id) == [items |-> s, raise |-> item_id < 0 \/ item_id >= Len(s)]

\* raise HTTPException(status_code=404, detail=f"Index {item_id} out of range {len(items)}")
simple_get_item_raise(s, item_id) ==
  [items |-> s, status |-> 404,
   body |-> [detail |-> "Index out of range", item_id |-> item_id, length |-> Len(s)]]

\* return items[item_id]
simple_get_item_return(s, item_id) ==
  LET r == PyIndex(s, item_id)
  IN IF r.ok THEN [items |-> s, status |-> 200, body |-> r.v[1]]
     ELSE [items |-> s, status |-> 500, body |-> [detail |-> "Internal Server Error"]]

----------------------------------------------------------------------------
\* The statement of service svc.
create_item_append(svc, s, item) ==
  IF svc = "typed" THEN typed_create_item_append(s, item) ELSE simple_create_item_append(s, item)
create_item_return(svc, s) ==
  IF svc = "typed" THEN typed_create_item_return(s) ELSE simple_create_item_return(s)
list_items(svc, s, limit) ==
  IF svc = "typed" THEN typed_list_items(s, limit) ELSE simple_list_items(s, limit)
get_item_check(svc, s, item_id) ==
  IF svc = "typed" THEN typed_get_item_check(s, item_id) ELSE simple_get_item_check(s, item_id)
get_item_raise(svc, s, item_id) ==
  IF svc = "typed" THEN typed_get_item_raise(s, item_id) ELSE simple_get_item_raise(s, item_id)
get_item_return(svc, s, item_id) ==
  IF svc = "typed" THEN typed_get_item_return(s, item_id) ELSE simple_get_item_return(s, item_id)

\* A whole handler run with no other request in between.
Serve(svc, s, r) ==
  CASE r.op = "create" ->
         LET a == create_item_append(svc, s, r.item) IN create_item_return(svc, a.items)
    [] r.op = "list" -> list_items(svc, s, r.limit)
    [] r.op = "get" ->
         LET c == get_item_check(svc, s, r.item_id)
         IN IF c.raise THEN get_item_raise(svc, c.items, r.item_id)
            ELSE get_item_return(svc, c.items, r.item_id)

----------------------------------------------------------------------------
VARIABLES
  service,   \* the service this process runs: which main.py was started
  items,     \* items[svc]: the module-level list `items` of service svc
  pc,        \* pc[t]: the statement worker thread t is about to execute
  req,       \* req[t]: the request thread t is serving
  pre,       \* pre[t]: the list as thread t's append found it
  resp,      \* resp[svc]: the last response service svc sent
  created,   \* created[svc]: the items appended so far, in the order of the appends
  finished   \* finished[svc]: the create requests answered so far

vars == <<service, items, pc, req, pre, resp, created, finished>>

NoReq == [op |-> "none"]
NoResp == [req |-> NoReq, status |-> 0, body |-> <<>>]
Limits == {None} \cup {Some(k) : k \in Args}

Init ==
  /\ service \in Services
  /\ items = [svc \in Services |-> <<>>]
  /\ pc = [t \in Threads |-> "idle"]
  /\ req = [t \in Threads |-> NoReq]
  /\ pre = [t \in Threads |-> <<>>]
  /\ resp = [svc \in Services |-> NoResp]
  /\ created = [svc \in Services |-> <<>>]
  /\ finished = [svc \in Services |-> 0]

\* What the framework passes to create_item for a request body: the typed
\* service's argument is the Item built from the JSON body, the untyped
\* service's is the query string itself.
Argument(svc, body) ==
  IF svc = "typed" THEN Item(body) ELSE [ok |-> TRUE, item |-> body]

\* POST /items of the typed service with a body class Item refuses: the
\* framework answers 422 and create_item is not called.
RejectCreate(t) ==
  /\ pc[t] = "idle"
  /\ service = "typed"
  /\ \E body \in Bodies :
       /\ ~Argument(service, body).ok
       /\ resp' = [resp EXCEPT ![service] =
                     [req |-> [op |-> "create", body |-> body], status |-> 422,
                      body |-> [detail |-> "Unprocessable Entity"]]]
  /\ UNCHANGED <<service, items, pc, req, pre, created, finished>>

\* POST /items, create_item: items.append(item)
CreateAppend(t) ==
  /\ pc[t] = "idle"
  /\ Len(items[service]) < MaxItems
  /\ \E body \in (IF service = "typed" THEN Bodies ELSE Strings) :
       LET a == Argument(service, body)
       IN /\ a.ok
          /\ req' = [req EXCEPT ![t] = [op |-> "create", body |-> body, item |-> a.item]]
          /\ items' = [items EXCEPT ![service] = create_item_append(service, @, a.item).items]
          /\ created' = [created EXCEPT ![service] = Append(@, a.item)]
  /\ pre' = [pre EXCEPT ![t] = items[service]]
  /\ pc' = [pc EXCEPT ![t] = "return"]
  /\ UNCHANGED <<service, resp, finished>>

\* create_item: return items, and the response built from the list.
CreateReturn(t) ==
  /\ pc[t] = "return"
  /\ LET r == create_item_return(service, items[service])
     IN /\ items' = [items EXCEPT ![service] = r.items]
        /\ resp' = [resp EXCEPT ![service] = [req |-> req[t], status |-> r.status, body |-> r.body]]
  /\ finished' = [finished EXCEPT ![service] = @ + 1]
  /\ pc' = [pc EXCEPT ![t] = "idle"]
  /\ req' = [req EXCEPT ![t] = NoReq]
  /\ pre' = [pre EXCEPT ![t] = <<>>]
  /\ UNCHANGED <<service, created>>

\* GET /items, list_items: its one read of the list is the slice, or the
\* building of the response from the list it returns.
ListItems(t) ==
  /\ pc[t] = "idle"
  /\ \E limit \in Limits :
       LET r == list_items(service, items[service], limit)
       IN /\ items' = [items EXCEPT ![service] = r.items]
          /\ resp' = [resp EXCEPT ![service] =
                        [req |-> [op |-> "list", limit |-> limit],
                         status |-> r.status, body |-> r.body]]
  /\ UNCHANGED <<service, pc, req, pre, created, finished>>

\* GET /items/{item_id}, get_item: the bounds test.
GetCheck(t) ==
  /\ pc[t] = "idle"
  /\ \E item_id \in Args :
       LET c == get_item_check(service, items[service], item_id)
       IN /\ req' = [req EXCEPT ![t] = [op |-> "get", item_id |-> item_id]]
          /\ items' = [items EXCEPT ![service] = c.items]
          /\ pc' = [pc EXCEPT ![t] = IF c.raise THEN "raise" ELSE "index"]
  /\ UNCHANGED <<service, pre, resp, created, finished>>

\* get_item: raise HTTPException(404).
GetRaise(t) ==
  /\ pc[t] = "raise"
  /\ LET r == get_item_raise(service, items[service], req[t].item_id)
     IN /\ items' = [items EXCEPT ![service] = r.items]
        /\ resp' = [resp EXCEPT ![service] = [req |-> req[t], status |-> r.status, body |-> r.body]]
  /\ pc' = [pc EXCEPT ![t] = "idle"]
  /\ req' = [req EXCEPT ![t] = NoReq]
  /\ UNCHANGED <<service, pre, created, finished>>

\* get_item: return items[item_id].
GetReturn(t) ==
  /\ pc[t] = "index"
  /\ LET r == get_item_return(service, items[service], req[t].item_id)
     IN /\ items' = [items EXCEPT ![service] = r.items]
        /\ resp' = [resp EXCEPT ![service] = [req |-> req[t], status |-> r.status, body |-> r.body]]
  /\ pc' = [pc EXCEPT ![t] = "idle"]
  /\ req' = [req EXCEPT ![t] = NoReq]
  /\ UNCHANGED <<service, pre, created, finished>>

Next ==
  \E t \in Threads :
    \/ RejectCreate(t)
    \/ CreateAppend(t)
    \/ CreateReturn(t)
    \/ ListItems(t)
    \/ GetCheck(t)
    \/ GetRaise(t)
    \/ GetReturn(t)

Spec == Init /\ [][Next]_vars

----------------------------------------------------------------------------
\* The two services side by side: every request is sent to both and each
\* serves it before the next one arrives.
Both(rt, rs) ==
  LET a == Serve("typed", items["typed"], rt)
      b == Serve("simple", items["simple"], rs)
  IN /\ items' = [svc \in Services |-> IF svc = "typed" THEN a.items ELSE b.items]
     /\ resp' = [svc \in Services |->
                   IF svc = "typed" THEN [req |-> rt, status |-> a.status, body |-> a.body]
                   ELSE [req |-> rs, status |-> b.status, body |-> b.body]]
     /\ UNCHANGED <<service, pc, req, pre, created, finished>>

BothCreate ==
  /\ Len(items["typed"]) < MaxItems
  /\ Len(items["simple"]) < MaxItems
  /\ \E body \in Bodies, str \in Strings :
       /\ Argument("typed", body).ok
       /\ Both([op |-> "create", body |-> body, item |-> Argument("typed", body).item],
               [op |-> "create", body |-> str, item |-> Argument("simple", str).item])

BothList == \E limit \in Limits : Both([op |-> "list", limit |-> limit], [op |-> "list", limit |-> limit])

BothGet == \E item_id \in Args : Both([op |-> "get", item_id |-> item_id], [op |-> "get", item_id |-> item_id])

NextBoth == BothCreate \/ BothList \/ BothGet

SpecBoth == Init /\ [][NextBoth]_vars

----------------------------------------------------------------------------
\* Properties.

IsPrefix(a, b) == Len(a) <= Len(b) /\ SubSeq(b, 1, Len(a)) = a
Count(s, x) == Cardinality({i \in DOMAIN s : s[i] = x})
Returning == {t \in Threads : pc[t] = "return"}
\* The first n items of s.
Leading(s, n) == SubSeq(s, 1, n)

\* C1: list_items with no limit answers 200 with exactly the items created so
\* far, each once, in the order they were created, and so with the item of
\* every create answered so far.
C1_ListReturnsCreated ==
  LET r == list_items(service, items[service], None)
  IN /\ r.status = 200
     /\ r.body = created[service]
     /\ Len(r.body) >= finished[service]
     /\ (resp[service].req.op = "list" /\ resp[service].req.limit = None)
          => IsPrefix(resp[service].body, created[service])

\* C1 witness: a list without limit has answered with two different items, in
\* the order of their creation, after both creates were answered.
C1_Witness ==
  /\ resp[service].req.op = "list"
  /\ resp[service].req.limit = None
  /\ Len(resp[service].body) = 2
  /\ resp[service].body[1] # resp[service].body[2]
  /\ resp[service].body = created[service]
  /\ finished[service] = 2

\* C2: for every limit k >= 0, list_items(limit=k) answers 200 with the first
\* min(k, length) items.
C2_LimitReturnsLeading ==
  /\ \A k \in {a \in Args : a >= 0} :
       LET r == list_items(service, items[service], Some(k))
       IN /\ r.status = 200
          /\ r.body = Leading(items[service], Min(k, Len(items[service])))
  /\ (resp[service].req.op = "list" /\ resp[service].req.limit # None
        /\ resp[service].req.limit[1] >= 0)
       => /\ resp[service].status = 200
          /\ Len(resp[service].body) <= resp[service].req.limit[1]
          /\ IsPrefix(resp[service].body, items[service])

\* C2 witness: a list with a limit beyond the length answered with the whole,
\* non-empty list.
C2_Witness ==
  /\ resp[service].req.op = "list"
  /\ resp[service].req.limit # None
  /\ resp[service].req.limit[1] > Len(items[service])
  /\ resp[service].status = 200
  /\ resp[service].body = items[service]
  /\ Len(items[service]) = MaxItems

\* C2 witness for the limit 0 and a limit that truncates.
C2_WitnessTruncated ==
  /\ resp[service].req.op = "list"
  /\ resp[service].req.limit # None
  /\ resp[service].req.limit[1] \in {0, 1}
  /\ Len(resp[service].body) = resp[service].req.limit[1]
  /\ Len(items[service]) = 2

\* C3: get_item(i) answers 200 with the i-th created item when 0 <= i < length
\* and 404 otherwise: served on any reachable list, at the statement that
\* indexes the list, at the statement that raises, and in the response sent.
C3_GetItemBounds ==
  /\ \A i \in Args :
       LET r == Serve(service, items[service], [op |-> "get", item_id |-> i])
       IN IF 0 <= i /\ i < Len(items[service])
          THEN r.status = 200 /\ r.body = created[service][i + 1]
          ELSE r.status = 404
  /\ \A t \in Threads :
       /\ pc[t] = "index" =>
            /\ 0 <= req[t].item_id
            /\ req[t].item_id < Len(items[service])
            /\ get_item_return(service, items[service], req[t].item_id).status = 200
            /\ get_item_return(service, items[service], req[t].item_id).body
                 = created[service][req[t].item_id + 1]
       /\ pc[t] = "raise" =>
            get_item_raise(service, items[service], req[t].item_id).status = 404
  /\ resp[service].req.op = "get" =>
       /\ resp[service].status \in {200, 404}
       /\ resp[service].status = 200 =>
            /\ 0 <= resp[service].req.item_id
            /\ resp[service].req.item_id < Len(items[service])
            /\ resp[service].body = created[service][resp[service].req.item_id + 1]

\* C3 witness: index 0 of the empty list was answered 404.
C3_Witness ==
  /\ resp[service].req.op = "get"
  /\ resp[service].req.item_id = 0
  /\ resp[service].status = 404
  /\ items[service] = <<>>

\* C3 witness: a negative index of a full list was answered 404.
C3_WitnessNegative ==
  /\ resp[service].req.op = "get"
  /\ resp[service].req.item_id = 0 - 1
  /\ resp[service].status = 404
  /\ Len(items[service]) = MaxItems

\* C3 witness: the second item of a list of two different items was returned.
C3_WitnessFound ==
  /\ resp[service].req.op = "get"
  /\ resp[service].req.item_id = 1
  /\ resp[service].status = 200
  /\ Len(items[service]) = 2
  /\ resp[service].body = items[service][2]
  /\ items[service][1] # items[service][2]

\* C4 as claimed: the response of a create is the list as the call's append
\* found it followed by the new item as the last element.
C4_ResponseIsBeforePlusNew ==
  [][\A t \in Threads :
       (pc[t] = "return" /\ pc'[t] = "idle")
         => resp'[service].body = Append(pre[t], req[t].item)]_vars

\* C4 amended: the append of a create adds the new item at the end and nothing
\* else; the response is the list as it is when the response is built, which
\* starts with the list as the append found it followed by the new item, and
\* is exactly that when no other create has appended since.
C4_AppendsOne ==
  /\ [][\A t \in Threads :
          (pc[t] = "idle" /\ pc'[t] = "return")
            => items'[service] = Append(items[service], req'[t].item)]_vars
  /\ [](\A t \in Returning :
          LET r == create_item_return(service, items[service])
              mine == Append(pre[t], req[t].item)
          IN /\ r.status = 200
             /\ IsPrefix(mine, r.body)
             /\ Len(items[service]) = Len(mine) => r.body = mine)
  /\ [][\A t \in Threads :
          (pc[t] = "return" /\ pc'[t] = "idle")
            => /\ resp'[service].status = 200
               /\ IsPrefix(Append(pre[t], req[t].item), resp'[service].body)
               /\ Len(items[service]) = Len(pre[t]) + 1
                    => resp'[service].body = Append(pre[t], req[t].item)]_vars

\* C4 witness: a create was answered with a list in which its item is
\* followed by the item of another create.
C4_Witness ==
  /\ resp[service].req.op = "create"
  /\ resp[service].status = 200
  /\ Len(resp[service].body) = 2
  /\ resp[service].body[1] = resp[service].req.item
  /\ resp[service].body[2] # resp[service].req.item
  /\ finished[service] = 1

\* A body class Item must refuse: a required field missing, or a field of a
\* type its annotation does not admit.
BadShape(b) ==
  \/ b.name.t # "str"
  \/ b.price.t # "num"
  \/ b.description.t \notin {"absent", "null", "str"}
  \/ b.quantity.t \notin {"absent", "num"}

\* C5: in the typed service a body of a bad shape is answered with a client
\* error, never reaches the append, and its rejection leaves the list as it was.
C5_RejectBeforeAppend ==
  /\ [](\A b \in Bodies : BadShape(b) => ~Argument("typed", b).ok)
  /\ [](service = "typed" =>
          \A t \in Threads : req[t].op = "create" => ~BadShape(req[t].body))
  /\ [](resp["typed"].status = 422 => BadShape(resp["typed"].req.body))
  /\ [](resp["typed"].req.op = "create" /\ BadShape(resp["typed"].req.body)
          => resp["typed"].status \in 400..499)
  /\ [][(pc' = pc /\ resp'["typed"].status = 422) => items' = items]_vars

\* C5 witness: a body without price was answered 422 while the list holds one
\* item and no create is in flight.
C5_Witness ==
  /\ service = "typed"
  /\ resp["typed"].status = 422
  /\ resp["typed"].req.body.price.t = "absent"
  /\ Len(items["typed"]) = 1
  /\ Returning = {}
  /\ finished["typed"] = 1

\* C6: whatever the interleaving, the list holds one element per append made:
\* its length is the number of creates answered plus those between their
\* append and their answer, and it holds the appended items, each as many
\* times as it was appended.  With no create in flight it holds exactly one
\* element per create.
C6_NoLostAppend ==
  /\ Len(items[service]) = finished[service] + Cardinality(Returning)
  /\ \A x \in {created[service][i] : i \in DOMAIN created[service]}
          \cup {items[service][i] : i \in DOMAIN items[service]} :
       Count(items[service], x) = Count(created[service], x)
  /\ Returning = {} => Len(items[service]) = finished[service]

\* C6 witness: two creates have both appended before either was answered.
C6_Witness ==
  /\ Cardinality(Returning) = 2
  /\ Len(items[service]) = 2
  /\ finished[service] = 0

\* C6 witness: two overlapping creates have finished; the one answered last
\* appended first.
C6_WitnessFinished ==
  /\ Returning = {}
  /\ finished[service] = 2
  /\ Len(items[service]) = 2
  /\ resp[service].req.op = "create"
  /\ resp[service].req.item = items[service][1]
  /\ items[service][1] # items[service][2]

\* C7: every step leaves the old list as a prefix of the new one, and an item
\* a get has returned stays at its index: it is what the list holds there now
\* and what a get of that index about to return will return.
C7_AppendOnly ==
  /\ [][\A svc \in Services : IsPrefix(items[svc], items'[svc])]_vars
  /\ []((resp[service].req.op = "get" /\ resp[service].status = 200) =>
          /\ resp[service].req.item_id < Len(items[service])
          /\ resp[service].body = items[service][resp[service].req.item_id + 1]
          /\ \A t \in Threads :
               (pc[t] = "index" /\ req[t].item_id = resp[service].req.item_id)
                 => get_item_return(service, items[service], req[t].item_id).body
                      = resp[service].body)

\* C7 witness: get_item(0) has returned the first item, the list has grown
\* since, and another get_item(0) is about to return.
C7_Witness ==
  /\ resp[service].req.op = "get"
  /\ resp[service].status = 200
  /\ resp[service].req.item_id = 0
  /\ Len(items[service]) = 2
  /\ \E t \in Threads : pc[t] = "index" /\ req[t].item_id = 0
  /\ \E t \in Returning : Len(pre[t]) = 1

\* C8: a step that changes a list is the append of a create; the statements of
\* list_items and get_item leave the list as they found it.
C8_OnlyCreateModifies ==
  /\ [][items' # items => \E t \in Threads : pc[t] = "idle" /\ pc'[t] = "return"]_vars
  /\ [](\A limit \in Limits :
          list_items(service, items[service], limit).items = items[service])
  /\ [](\A i \in Args :
          /\ get_item_check(service, items[service], i).items = items[service]
          /\ get_item_raise(service, items[service], i).items = items[service]
          /\ get_item_return(service, items[service], i).items = items[service])

\* C8 witness: a list was truncated by its limit and the list is still whole.
C8_Witness ==
  /\ resp[service].req.op = "list"
  /\ resp[service].req.limit = Some(1)
  /\ Len(resp[service].body) = 1
  /\ Len(items[service]) = 2
  /\ items[service] = created[service]
  /\ finished[service] = 2

\* C8 witness: a get was answered 404 and the list is still whole.
C8_WitnessNotFound ==
  /\ resp[service].req.op = "get"
  /\ resp[service].status = 404
  /\ resp[service].req.item_id = 2
  /\ Len(items[service]) = 2
  /\ items[service] = created[service]
  /\ finished[service] = 2

\* C9: served side by side, the two services hold lists of the same length and
\* answer every request alike: the same status, and for a create or a list
\* the same number of items.
C9_SameShape ==
  /\ Len(items["typed"]) = Len(items["simple"])
  /\ resp["typed"].req.op = resp["simple"].req.op
  /\ resp["typed"].status = resp["simple"].status
  /\ (resp["typed"].req.op \in {"create", "list"} /\ resp["typed"].status = 200)
       => Len(resp["typed"].body) = Len(resp["simple"].body)
  /\ \A limit \in Limits :
       Len(Serve("typed", items["typed"], [op |-> "list", limit |-> limit]).body)
         = Len(Serve("simple", items["simple"], [op |-> "list", limit |-> limit]).body)
  /\ \A i \in Args :
       Serve("typed", items["typed"], [op |-> "get", item_id |-> i]).status
         = Serve("simple", items["simple"], [op |-> "get", item_id |-> i]).status

\* C9 witness: both services, holding two items each, answered a get of a
\* negative index with 404.
C9_Witness ==
  /\ Len(items["typed"]) = 2
  /\ Len(items["simple"]) = 2
  /\ resp["typed"].req.op = "get"
  /\ resp["simple"].req.op = "get"
  /\ resp["typed"].req.item_id < 0
  /\ resp["typed"].status = 404
  /\ resp["simple"].status = 404

\* C9 witness: both services answered a truncating list with one item.
C9_WitnessList ==
  /\ Len(items["typed"]) = 2
  /\ resp["typed"].req.op = "list"
  /\ resp["typed"].req.limit = Some(1)
  /\ Len(resp["typed"].body) = 1
  /\ Len(resp["simple"].body) = 1

\* C10: a negative limit -k is served without error with the first
\* max(0, length - k) items, never with the whole of a non-empty list.
C10_NegativeLimit ==
  /\ \A k \in {a \in Args : a > 0} :
       LET r == list_items(service, items[service], Some(0 - k))
       IN /\ r.status = 200
          /\ r.body = Leading(items[service], Max(0, Len(items[service]) - k))
          /\ items[service] # <<>> => r.body # items[service]
  /\ (resp[service].req.op = "list" /\ resp[service].req.limit # None
        /\ resp[service].req.limit[1] < 0)
       => /\ resp[service].status = 200
          /\ Len(resp[service].body) <= Max(0, Len(items[service]) + resp[service].req.limit[1])
          /\ IsPrefix(resp[service].body, items[service])

\* C10 witness: limit -1 on a list of two was answered with one item, more
\* than limit 0 gives.
C10_Witness ==
  /\ resp[service].req.op = "list"
  /\ resp[service].req.limit = Some(0 - 1)
  /\ resp[service].status = 200
  /\ Len(items[service]) = 2
  /\ resp[service].body = <<items[service][1]>>
  /\ Len(resp[service].body) > Len(list_items(service, items[service], Some(0)).body)

====
